---- MODULE Spec2Model ----
(***************************************************************************)
(* magic-folder: the indexing and retrieval pipeline of magic-api          *)
(* (process_file_handler, search_handler) over the collaborators of        *)
(* magic-core (content_extractor, OllamaClient, VectorStore,               *)
(* MetadataStore).                                                         *)
(*                                                                         *)
(* Values.  Option<T> is a sequence of length at most one (None == <<>>,   *)
(* Some(x) == <<x>>).  A Vec<f32> is abstracted to its length and to the   *)
(* text it embeds, [len, of]; the arithmetic the code does on vectors is   *)
(* arithmetic on their lengths, which is kept exactly.  A path is a        *)
(* record [stem, ext]; ext = "" is a path without extension.               *)
(***************************************************************************)
EXTENDS Integers, Sequences, FiniteSets, TLC

VARIABLES
    fs,     \* the file system: what each path holds
    files,  \* MetadataStore: the rows of table `files`
    rows,   \* VectorStore: the rows of the vector table, in insertion order
    last,   \* the last handler call that returned
    hist,   \* the calls made so far, where a scenario follows them
    db,     \* the Lance directory: the vector tables on disk, by name
    opened, \* the last VectorStore::new call that returned
    mutex,  \* MetadataStore.conn's Mutex: the task that holds its guard
    rowid,  \* the SQLite connection's last_insert_rowid
    tasks,  \* the add_file_metadata call each task is in, and where in it
    log,    \* the add_file_metadata calls that returned, in order
    procs,  \* the process_file_handler call of each request in flight
    http,   \* the requests OllamaClient has sent, each with its reply
    channel, \* FileWatcher: the batches in the mpsc channel, oldest first
    sender, \* FileWatcher: whether the channel's Sender is alive
    sent,   \* FileWatcher: the kinds of the batches the debouncer has sent, in order
    handed  \* FileWatcher: what next_event / try_next_event returned, in order

\* MetadataStore seen call by call.
catalog == <<mutex, rowid, tasks, log>>

\* What the handlers run from their first line to their return never touch.
\* The embedding service's requests and the file watcher, seen call by call.
io == <<http, channel, sender, sent, handed>>

others == <<db, opened, catalog, procs, io>>

vars ==
    <<fs, files, rows, last, hist, db, opened, mutex, rowid, tasks, log, procs, http,
      channel, sender, sent, handed>>

None == <<>>

Some(x) == <<x>>

\* ------------------------------------------------------------------ bounds

\* Largest timestamp chrono::Utc::now() yields in the model (a wall clock: it
\* is read, never kept, and need not be monotonic).
MaxTime == 1

\* Calls a followed scenario makes.
MaxCalls == 2

\* ---------------------------------------------------------------- constants

\* vector_store.rs: const EMBEDDING_DIM: i32 = 768
EMBEDDING_DIM == 768

\* lib.rs: payload.top_k.unwrap_or(5)
DEFAULT_TOP_K == 5

\* ------------------------------------------------------------- input domains

Paths ==
    { [stem |-> "a", ext |-> "txt"], [stem |-> "b", ext |-> "md"],
      [stem |-> "c", ext |-> "bin"] }

Texts == {"t1", "t2"}

Absent == "<absent>"

Unreadable == "<unreadable>"

\* What the file system holds at a path: nothing, a file whose read fails (no
\* permission, invalid UTF-8), or a file with the given content ("" is an empty file).
FileStates == {Absent, Unreadable, ""} \cup Texts

Queries == {"t1", "q"}

Times == 0..MaxTime

\* Lengths of the vectors the embedding service may answer with.
Lens == {0, EMBEDDING_DIM, EMBEDDING_DIM + 1, 2 * EMBEDDING_DIM}

Vectors(text) == { [len |-> n, of |-> text] : n \in Lens }

\* What happens to the one HTTP request of a get_embedding call: it is not
\* answered, or it is answered with a status and a body that parses as
\* {"embedding": [...]} or does not.
Replies(text) ==
    { [sent |-> s, status |-> st, parses |-> p, embedding |-> v] :
        s \in BOOLEAN, st \in {200, 500}, p \in BOOLEAN, v \in Vectors(text) }

\* One reply for each way a call can go: replies that differ only in what
\* get_embedding never reads (the status of an unanswered request, the body
\* under a non-success status) are the same input.
DistinctReplies(text) ==
    { r \in Replies(text) :
        /\ ~r.sent => r.status = 500 /\ ~r.parses
        /\ r.status # 200 => ~r.parses
        /\ ~r.parses => r.embedding.len = 0 }

TopKs == {None, Some(0), Some(1)}

Ok(v) == [ok |-> TRUE, val |-> v]

Err(e) == [ok |-> FALSE, err |-> e]

\* ------------------------------------------------- content_extractor.rs

\* Path::extension().and_then(|s| s.to_str()): None for a path without one.
extension(p) == IF p.ext = "" THEN None ELSE Some(p.ext)

\* fs::read_to_string(path)
read_to_string(fsys, p) ==
    IF fsys[p] \in {Absent, Unreadable} THEN Err("io") ELSE Ok(fsys[p])

\* extract_text_from_file without the match on the extension: every file is read.
extract_text_from_file_any_extension(fsys, p) == read_to_string(fsys, p)

extract_text_from_file(fsys, p) ==
    IF extension(p) \in {Some("txt"), Some("md")}
    THEN read_to_string(fsys, p)
    ELSE Ok("")

\* ----------------------------------------------------- ollama_client.rs

\* get_embedding without `if !response.status().is_success()`: the body of any
\* answer is parsed.
get_embedding_status_unchecked(reply) ==
    IF ~reply.sent THEN Err("Reqwest")
    ELSE IF ~reply.parses THEN Err("Reqwest")
    ELSE Ok(reply.embedding)

\* One POST to {ollama_url}/api/embeddings: `.send().await?` fails when the
\* request is not answered, a non-success status is an ApiError, and
\* `.json::<EmbeddingResponse>().await?` fails on a body that does not parse.
get_embedding(reply) ==
    IF ~reply.sent THEN Err("Reqwest")
    ELSE IF ~(reply.status \in 200..299) THEN Err("ApiError")
    ELSE IF ~reply.parses THEN Err("Reqwest")
    ELSE Ok(reply.embedding)

\* ------------------------------------------------------ vector_store.rs

\* arrow DataType: kind, and for a FixedSizeList the kind of its items and its size.
Float32 == [kind |-> "Float32", item |-> "", size |-> 0]

Utf8 == [kind |-> "Utf8", item |-> "", size |-> 0]

\* DataType::FixedSizeList(field, size)
FixedSizeList(field, size) ==
    [kind |-> "FixedSizeList", item |-> field.data_type.kind, size |-> size]

\* Field::new("item", DataType::Float32, true)
item_field == [name |-> "item", data_type |-> Float32]

\* VectorStore::new: the schema {path: Utf8, vector: FixedSizeList<Float32>[EMBEDDING_DIM]}
schema ==
    [path   |-> [name |-> "path", data_type |-> Utf8],
     vector |-> [name |-> "vector",
                 data_type |-> FixedSizeList(item_field, EMBEDDING_DIM)]]

\* A name of the Lance directory without a table; a table has the dimension of
\* its vector column and its rows, in insertion order.
NoTable == [exists |-> FALSE, dim |-> 0, rows |-> <<>>]

\* What a VectorStore::new call meets: whether lancedb::connect, table_names
\* and create_empty_table succeed.
NewEnv(connOk, namesOk, createOk) ==
    [connOk |-> connOk, namesOk |-> namesOk, createOk |-> createOk]

\* The handle VectorStore::new returns: {conn, schema, table_name}, the schema
\* kept as the size of its vector column.
Store(table_name) == [table_name |-> table_name, dim |-> schema.vector.data_type.size]

NoStore == [table_name |-> "", dim |-> 0]

\* VectorStore::new with the `if !table_names.contains(..)` dropped: the table
\* is created on every call.
VectorStore_new_always_create(dir, table_name, env) ==
    IF ~env.connOk THEN [ok |-> FALSE, err |-> "connect", dir |-> dir, store |-> NoStore]
    ELSE IF ~env.namesOk
    THEN [ok |-> FALSE, err |-> "table_names", dir |-> dir, store |-> NoStore]
    ELSE IF ~env.createOk
    THEN [ok |-> FALSE, err |-> "create_empty_table", dir |-> dir, store |-> NoStore]
    ELSE [ok |-> TRUE, err |-> "",
          dir |-> [dir EXCEPT ![table_name] =
                      [exists |-> TRUE, dim |-> schema.vector.data_type.size,
                       rows |-> <<>>]],
          store |-> Store(table_name)]

\* VectorStore::new(db_path, table_name) on the Lance directory dir: connect,
\* build the schema of EMBEDDING_DIM, list the tables, create the empty table
\* if its name is not listed.  A listed table is not opened and its schema is
\* not read.
VectorStore_new(dir, table_name, env) ==
    IF ~env.connOk THEN [ok |-> FALSE, err |-> "connect", dir |-> dir, store |-> NoStore]
    ELSE IF ~env.namesOk
    THEN [ok |-> FALSE, err |-> "table_names", dir |-> dir, store |-> NoStore]
    ELSE
    LET table_names == { t \in DOMAIN dir : dir[t].exists }
    IN  IF table_name \notin table_names
        THEN IF ~env.createOk
             THEN [ok |-> FALSE, err |-> "create_empty_table", dir |-> dir,
                   store |-> NoStore]
             ELSE [ok |-> TRUE, err |-> "",
                   dir |-> [dir EXCEPT ![table_name] =
                               [exists |-> TRUE, dim |-> schema.vector.data_type.size,
                                rows |-> <<>>]],
                   store |-> Store(table_name)]
        ELSE [ok |-> TRUE, err |-> "", dir |-> dir, store |-> Store(table_name)]

\* Float32Array::from(vector)
Float32Array(vector) == [data_type |-> Float32, len |-> vector.len, of |-> vector.of]

\* arrow FixedSizeListArray::try_new(field, size, values, None).  `field` is
\* the field of the list's ITEMS: the call fails unless field.data_type is
\* the data type of `values`.  The array has values.len / size lists (integer
\* division: a remainder is not an error).
FixedSizeListArray_try_new(field, size, values) ==
    IF field.data_type # values.data_type
    THEN Err("InvalidArgumentError: FixedSizeListArray expected data type")
    ELSE Ok([data_type |-> FixedSizeList(field, size), len |-> values.len \div size,
             values |-> values])

\* arrow RecordBatch::try_new(schema, [path column, vector column]): every
\* column has the type of its schema field and all columns have one length.
RecordBatch_try_new(path_len, list_array) ==
    IF list_array.data_type # schema.vector.data_type
    THEN Err("InvalidArgumentError: column types must match schema types")
    ELSE IF list_array.len # path_len
    THEN Err("InvalidArgumentError: all columns in a record batch must have the same length")
    ELSE Ok([path_len |-> path_len, vector |-> list_array.values])

\* add_embedding as its comments describe it: the list built over the field of
\* its items, and the batch appended to the table.
add_embedding_item_field(table, tblOk, path, vector) ==
    IF ~tblOk THEN [ok |-> FALSE, err |-> "open_table", rows |-> table]
    ELSE
    LET list_array == FixedSizeListArray_try_new(item_field, EMBEDDING_DIM,
                                                 Float32Array(vector))
    IN  IF ~list_array.ok THEN [ok |-> FALSE, err |-> list_array.err, rows |-> table]
        ELSE
        LET batch == RecordBatch_try_new(1, list_array.val)
        IN  IF ~batch.ok THEN [ok |-> FALSE, err |-> batch.err, rows |-> table]
            ELSE [ok |-> TRUE, err |-> "",
                  rows |-> Append(table, [path |-> path, vector |-> vector])]

\* add_embedding with the row written to the table before the vector is
\* checked: a refused vector has left its row.
add_embedding_written_before_checked(table, tblOk, path, vector) ==
    IF ~tblOk THEN [ok |-> FALSE, err |-> "open_table", rows |-> table]
    ELSE
    LET list_field_ref == schema.vector
        list_array == FixedSizeListArray_try_new(list_field_ref, EMBEDDING_DIM,
                                                 Float32Array(vector))
    IN  IF ~list_array.ok
        THEN [ok |-> FALSE, err |-> list_array.err,
              rows |-> Append(table, [path |-> path, vector |-> vector])]
        ELSE [ok |-> TRUE, err |-> "",
              rows |-> Append(table, [path |-> path, vector |-> vector])]

\* `tbl.add(batch_reader);` lancedb's Table::add only builds an AddDataBuilder;
\* the statement neither calls .execute() nor awaits it, and drops the
\* builder: the table is left as it was.
table_add(table, path, batch) == table

\* VectorStore::add_embedding(path, vector).  tblOk: whether open_table succeeds.
\* The field handed to try_new is the schema's field of the vector column
\* (a FixedSizeList), not the field of its items.
add_embedding(table, tblOk, path, vector) ==
    IF ~tblOk THEN [ok |-> FALSE, err |-> "open_table", rows |-> table]
    ELSE
    LET list_field_ref == schema.vector
        list_array == FixedSizeListArray_try_new(list_field_ref, EMBEDDING_DIM,
                                                 Float32Array(vector))
    IN  IF ~list_array.ok THEN [ok |-> FALSE, err |-> list_array.err, rows |-> table]
        ELSE
        LET batch == RecordBatch_try_new(1, list_array.val)
        IN  IF ~batch.ok THEN [ok |-> FALSE, err |-> batch.err, rows |-> table]
            ELSE [ok |-> TRUE, err |-> "", rows |-> table_add(table, path, batch.val)]

\* Position of a text's embedding: the float vectors are abstracted to one
\* coordinate, equal texts embedding to equal vectors.
Pos(text) == CASE text = "t1" -> 0 [] text = "t2" -> 2 [] OTHER -> 3

\* The engine's distance of a stored vector to the query (L2, squared).
Distance(q, v) == (Pos(q.of) - Pos(v.of)) * (Pos(q.of) - Pos(v.of))

RECURSIVE InsertByDistance(_, _, _)
\* `row` put into the distance-sorted `sorted`, after the rows that are as close (stable).
InsertByDistance(sorted, row, q) ==
    IF sorted = <<>> THEN <<row>>
    ELSE IF Distance(q, row.vector) < Distance(q, Head(sorted).vector)
    THEN <<row>> \o sorted
    ELSE <<Head(sorted)>> \o InsertByDistance(Tail(sorted), row, q)

RECURSIVE SortByDistance(_, _)
SortByDistance(table, q) ==
    IF table = <<>> THEN <<>>
    ELSE InsertByDistance(SortByDistance(SubSeq(table, 1, Len(table) - 1), q),
                          table[Len(table)], q)

Take(s, k) == SubSeq(s, 1, IF k < Len(s) THEN k ELSE Len(s))

\* VectorStore::search_similar(query_vector, top_k): the engine's nearest-
\* neighbour query, limit top_k, and the (path, _distance) pairs of its batches
\* in the engine's order.  The engine refuses a query vector whose length is
\* not the dimension of the vector column.  zeroOk: whether the engine answers
\* a limit of 0 with no rows or refuses it.
search_similar(table, tblOk, query_vector, top_k, zeroOk) ==
    IF ~tblOk THEN Err("open_table")
    ELSE IF query_vector.len # schema.vector.data_type.size
    THEN Err("query dimension does not match the vector column")
    ELSE IF top_k = 0 /\ ~zeroOk THEN Err("k must be positive")
    ELSE LET nearest == Take(SortByDistance(table, query_vector), top_k)
         IN  Ok([i \in 1..Len(nearest) |->
                    <<nearest[i].path, Distance(query_vector, nearest[i].vector)>>])

\* ---------------------------------------------------- metadata_store.rs

Max(S) == CHOOSE x \in S : \A y \in S : y <= x

\* A rowid counted from the rows the table holds: one more than their number.
new_rowid_count(table) == Cardinality(table) + 1

\* SQLite's rowid for an INSERT that gives none to an INTEGER PRIMARY KEY
\* column: one more than the largest rowid in the table, 1 in an empty table.
\* It is chosen before OR REPLACE deletes the conflicting rows.
new_rowid(table) == IF table = {} THEN 1 ELSE Max({r.id : r \in table}) + 1

\* INSERT INTO files without OR REPLACE and without the UNIQUE constraints: the
\* row is added to those the table holds.
insert_or_replace_plain_insert(table, path, processed_at, vector_id) ==
    table \cup { [id |-> new_rowid(table), path |-> path,
                  processed_at |-> processed_at, vector_id |-> vector_id] }

\* INSERT OR REPLACE INTO files (path, processed_at, vector_id): rows that
\* conflict on UNIQUE(path) or on UNIQUE(vector_id) are deleted, then the row
\* is inserted.
insert_or_replace(table, path, processed_at, vector_id) ==
    { r \in table : r.path # path /\ r.vector_id # vector_id }
      \cup { [id |-> new_rowid(table), path |-> path,
              processed_at |-> processed_at, vector_id |-> vector_id] }

\* MetadataStore::add_file_metadata(path, vector_id), under the connection's
\* mutex.  sqlOk: whether conn.execute succeeds; now: chrono::Utc::now().
\* Returns conn.last_insert_rowid().
add_file_metadata(table, sqlOk, path, vector_id, now) ==
    IF ~sqlOk THEN [ok |-> FALSE, err |-> "rusqlite", id |-> 0, files |-> table]
    ELSE [ok |-> TRUE, err |-> "", id |-> new_rowid(table),
          files |-> insert_or_replace(table, path, now, vector_id)]

\* ------------------------------------------------------ file_watcher.rs

\* What the debouncer sends: Ok(events) or Err(errors), numbered as sent.
Batch(id, kind) == [id |-> id, kind |-> kind]

\* std::sync::mpsc Receiver::try_recv: the oldest message if there is one;
\* Empty with none and a live Sender, Disconnected with none and no Sender.
try_recv(ch, alive) ==
    IF ch # <<>> THEN [ok |-> TRUE, err |-> "", val |-> <<Head(ch)>>, left |-> Tail(ch)]
    ELSE [ok |-> FALSE, err |-> IF alive THEN "Empty" ELSE "Disconnected", val |-> <<>>,
          left |-> ch]

\* What a FileWatcher call returns: Ok or Err(RecvError), what the Ok holds
\* ("events": the batch's events; "empty": vec![]; "none": None), the batch
\* taken from the channel (0 with none) and the channel the call leaves.
WatcherResult(ok, out, batch, left) ==
    [ok |-> ok, out |-> out, batch |-> batch, left |-> left]

\* next_event with `Err(errors) => Err(RecvError)`: a batch of watcher errors
\* fails the call.
next_event_errors_fail(ch, alive) ==
    LET r == try_recv(ch, alive)
    IN  IF ~r.ok THEN WatcherResult(FALSE, "RecvError", 0, ch)
        ELSE IF r.val[1].kind = "events"
        THEN WatcherResult(TRUE, "events", r.val[1].id, r.left)
        ELSE WatcherResult(FALSE, "RecvError", r.val[1].id, r.left)

\* FileWatcher::next_event once self.receiver.recv() has returned (recv waits
\* while the channel is empty and the Sender alive): recv()? gives RecvError
\* on an empty channel without Sender; Ok(events) is returned as it is, and
\* Err(errors) is printed and returned as Ok(vec![]).
next_event(ch, alive) ==
    LET r == try_recv(ch, alive)
    IN  IF ~r.ok THEN WatcherResult(FALSE, "RecvError", 0, ch)
        ELSE IF r.val[1].kind = "events"
        THEN WatcherResult(TRUE, "events", r.val[1].id, r.left)
        ELSE WatcherResult(TRUE, "empty", r.val[1].id, r.left)

\* FileWatcher::try_next_event: Ok(Ok(events)) => Ok(Some(events)),
\* Ok(Err(errors)) => Ok(None), Empty => Ok(None), Disconnected => Err(RecvError).
try_next_event(ch, alive) ==
    LET r == try_recv(ch, alive)
    IN  IF r.ok
        THEN IF r.val[1].kind = "events"
             THEN WatcherResult(TRUE, "events", r.val[1].id, r.left)
             ELSE WatcherResult(TRUE, "none", r.val[1].id, r.left)
        ELSE IF r.err = "Empty" THEN WatcherResult(TRUE, "none", 0, ch)
        ELSE WatcherResult(FALSE, "RecvError", 0, ch)

\* --------------------------------------------- lib.rs: process_file_handler

\* PathBuf::to_string_lossy().into_owned() of a path built from a String
\* (valid UTF-8): the same string.
to_string_lossy(p) == p

\* What the handler answers: the HTTP status with the Err string, or Json(..).
Response(status, message, file_id, vector_id, results) ==
    [status |-> status, message |-> message, file_id |-> file_id,
     vector_id |-> vector_id, results |-> results]

\* A handler call about to start: its position, its locals, the collaborator
\* calls it has made (with their outcome), and its response once it returned.
NewCall(path) ==
    [pc |-> "exists", path |-> path, text |-> "", embedding |-> None,
     vector_id |-> None, calls |-> <<>>, response |-> None]

\* r: the collaborator's result; its error is logged with it.
Called(c, fn, r) ==
    Append(c.calls, [fn |-> fn, ok |-> r.ok, err |-> IF r.ok THEN "" ELSE r.err])

Return(c, fn, r, response) ==
    [c EXCEPT !.pc = "done", !.calls = Called(c, fn, r), !.response = Some(response)]

\* StepExists without its check: the handler goes on to extraction whatever the path holds.
StepExists_unchecked(m, env) ==
    [m EXCEPT !.c = [m.c EXCEPT !.pc = "extract",
                                !.calls = Called(m.c, "exists", Ok(TRUE))]]

\* if !path.exists() { return Err((BAD_REQUEST, "File not found")) }
StepExists(m, env) ==
    LET c == m.c
        r == IF env.fsys[c.path] = Absent THEN Err("absent") ELSE Ok(TRUE)
    IN  IF ~r.ok
        THEN [m EXCEPT !.c = Return(c, "exists", r,
                                    Response(400, "File not found", None, None, <<>>))]
        ELSE [m EXCEPT !.c = [c EXCEPT !.pc = "extract",
                                       !.calls = Called(c, "exists", r)]]

\* StepExtract without `if text_content.is_empty()`: an empty text is embedded like any other.
StepExtract_no_empty_check(m, env) ==
    LET c == m.c
        r == extract_text_from_file(env.fsys, c.path)
    IN  IF ~r.ok
        THEN [m EXCEPT !.c = Return(c, "extract_text_from_file", r,
                                    Response(500, "Extraction error", None, None, <<>>))]
        ELSE [m EXCEPT !.c = [c EXCEPT !.pc = "embed", !.text = r.val,
                                       !.calls = Called(c, "extract_text_from_file", r)]]

\* StepExtract with a failed read answered like a missing file: 400 File not found.
StepExtract_read_error_as_not_found(m, env) ==
    LET c == m.c
        r == extract_text_from_file(env.fsys, c.path)
    IN  IF ~r.ok
        THEN [m EXCEPT !.c = Return(c, "extract_text_from_file", r,
                                    Response(400, "File not found", None, None, <<>>))]
        ELSE IF r.val = ""
        THEN [m EXCEPT !.c = Return(c, "extract_text_from_file", r,
                                    Response(200, "No text extracted or unsupported file type",
                                             None, None, <<>>))]
        ELSE [m EXCEPT !.c = [c EXCEPT !.pc = "embed", !.text = r.val,
                                       !.calls = Called(c, "extract_text_from_file", r)]]

\* extract_text_from_file(&path).map_err(..)?; if text_content.is_empty() { return Ok(..None, None) }
StepExtract(m, env) ==
    LET c == m.c
        r == extract_text_from_file(env.fsys, c.path)
    IN  IF ~r.ok
        THEN [m EXCEPT !.c = Return(c, "extract_text_from_file", r,
                                    Response(500, "Extraction error", None, None, <<>>))]
        ELSE IF r.val = ""
        THEN [m EXCEPT !.c = Return(c, "extract_text_from_file", r,
                                    Response(200, "No text extracted or unsupported file type",
                                             None, None, <<>>))]
        ELSE [m EXCEPT !.c = [c EXCEPT !.pc = "embed", !.text = r.val,
                                       !.calls = Called(c, "extract_text_from_file", r)]]

\* StepEmbed with `.unwrap_or_default()` for `.map_err(..)?`: a failed embedding
\* becomes the empty vector and the handler goes on.
StepEmbed_default_on_error(m, env) ==
    LET c == m.c
        r == get_embedding(env.reply)
    IN  [m EXCEPT !.c = [c EXCEPT !.pc = "add_embedding",
                                  !.embedding = Some(IF r.ok THEN r.val
                                                     ELSE [len |-> 0, of |-> c.text]),
                                  !.vector_id = Some(to_string_lossy(c.path)),
                                  !.calls = Called(c, "get_embedding", r)]]

\* StepEmbed with one retry: a failed get_embedding is called once more before
\* the handler gives up.
StepEmbed_retried(m, env) ==
    LET c == m.c
        r == get_embedding(env.reply)
        again == [c EXCEPT !.calls = Called(c, "get_embedding", r)]
    IN  IF ~r.ok
        THEN [m EXCEPT !.c = Return(again, "get_embedding", get_embedding(env.reply),
                                    Response(500, "Ollama embedding error", None, None, <<>>))]
        ELSE [m EXCEPT !.c = [c EXCEPT !.pc = "add_embedding", !.embedding = Some(r.val),
                                       !.vector_id = Some(to_string_lossy(c.path)),
                                       !.calls = Called(c, "get_embedding", r)]]

\* ollama_client.get_embedding(&text_content).await.map_err(..)?; vector_id_str = path.to_string_lossy()
StepEmbed(m, env) ==
    LET c == m.c
        r == get_embedding(env.reply)
    IN  IF ~r.ok
        THEN [m EXCEPT !.c = Return(c, "get_embedding", r,
                                    Response(500, "Ollama embedding error", None, None, <<>>))]
        ELSE [m EXCEPT !.c = [c EXCEPT !.pc = "add_embedding", !.embedding = Some(r.val),
                                       !.vector_id = Some(to_string_lossy(c.path)),
                                       !.calls = Called(c, "get_embedding", r)]]

\* StepAddEmbedding with the result dropped (`let _ = ..add_embedding(..).await;`):
\* the handler goes on to the metadata store whatever the vector store answered.
StepAddEmbedding_result_dropped(m, env) ==
    LET c == m.c
        r == add_embedding(m.rows, env.tblOk, c.vector_id[1], c.embedding[1])
    IN  [m EXCEPT !.c = [c EXCEPT !.pc = "add_file_metadata",
                                  !.calls = Called(c, "add_embedding", r)],
                  !.rows = r.rows]

\* vector_store.add_embedding(&vector_id_str, embedding).await.map_err(..)?
StepAddEmbedding(m, env) ==
    LET c == m.c
        r == add_embedding(m.rows, env.tblOk, c.vector_id[1], c.embedding[1])
    IN  IF ~r.ok
        THEN [m EXCEPT !.c = Return(c, "add_embedding", r,
                                    Response(500, "Vector store error", None, None, <<>>)),
                       !.rows = r.rows]
        ELSE [m EXCEPT !.c = [c EXCEPT !.pc = "add_file_metadata",
                                       !.calls = Called(c, "add_embedding", r)],
                       !.rows = r.rows]

\* metadata_store.add_file_metadata(&payload.file_path, &vector_id_str).await.map_err(..)?;
\* Ok(Json(.. file_id: Some(metadata_id), vector_id: Some(vector_id_str)))
StepAddFileMetadata(m, env) ==
    LET c == m.c
        r == add_file_metadata(m.files, env.sqlOk, c.path, c.vector_id[1], env.now)
    IN  IF ~r.ok
        THEN [m EXCEPT !.c = Return(c, "add_file_metadata", r,
                                    Response(500, "Metadata store error", None, None, <<>>)),
                       !.files = r.files]
        ELSE [m EXCEPT !.c = Return(c, "add_file_metadata", r,
                                    Response(200, "File processed successfully",
                                             Some(r.id), c.vector_id, <<>>)),
                       !.files = r.files]

\* The handler's next step from where it stands; a returned call stays returned.
ProcessStep(m, env) ==
    CASE m.c.pc = "exists" -> StepExists(m, env)
      [] m.c.pc = "extract" -> StepExtract(m, env)
      [] m.c.pc = "embed" -> StepEmbed(m, env)
      [] m.c.pc = "add_embedding" -> StepAddEmbedding(m, env)
      [] m.c.pc = "add_file_metadata" -> StepAddFileMetadata(m, env)
      [] OTHER -> m

RECURSIVE ProcessSteps(_, _, _)
\* n steps of the handler, one after the other.
ProcessSteps(m, env, n) ==
    IF n = 0 THEN m ELSE ProcessSteps(ProcessStep(m, env), env, n - 1)

\* What surrounds a call: the file system, the embedding service's reply,
\* whether the stores' operations succeed, the wall clock.
Env(fsys, reply, tblOk, sqlOk, now, zeroOk) ==
    [fsys |-> fsys, reply |-> reply, tblOk |-> tblOk, sqlOk |-> sqlOk, now |-> now,
     zeroOk |-> zeroOk]

\* --------------------------------------------------- lib.rs: search_handler

unwrap_or(opt, default) == IF opt = None THEN default ELSE opt[1]

RECURSIVE MergeRepeated(_)
\* The results without those whose path an earlier result has.
MergeRepeated(res) ==
    IF res = <<>> THEN <<>>
    ELSE LET init == MergeRepeated(SubSeq(res, 1, Len(res) - 1))
             x == res[Len(res)]
         IN  IF \E i \in DOMAIN init : init[i].path = x.path THEN init
             ELSE Append(init, x)

\* search_handler with the results of a repeated path merged into the first of them.
search_handler_merging(index, top_k, env) ==
    LET c0 == [NewCall(None) EXCEPT !.pc = "embed"]
        e == get_embedding(env.reply)
    IN  IF ~e.ok
        THEN Return(c0, "get_embedding", e,
                    Response(500, "Ollama query embedding error", None, None, <<>>))
        ELSE
        LET c1 == [c0 EXCEPT !.embedding = Some(e.val),
                             !.calls = Called(c0, "get_embedding", e)]
            r == search_similar(index, env.tblOk, e.val, unwrap_or(top_k, DEFAULT_TOP_K),
                                env.zeroOk)
        IN  IF ~r.ok
            THEN Return(c1, "search_similar", r,
                        Response(500, "Vector search error", None, None, <<>>))
            ELSE Return(c1, "search_similar", r,
                        Response(200, "", None, None,
                                 MergeRepeated([i \in 1..Len(r.val) |->
                                    [path |-> r.val[i][1], score |-> r.val[i][2]]])))

\* search_handler run from its first line to its return: get_embedding,
\* search_similar with top_k.unwrap_or(5), and the results mapped one to one.
search_handler(index, top_k, env) ==
    LET c0 == [NewCall(None) EXCEPT !.pc = "embed"]
        e == get_embedding(env.reply)
    IN  IF ~e.ok
        THEN Return(c0, "get_embedding", e,
                    Response(500, "Ollama query embedding error", None, None, <<>>))
        ELSE
        LET c1 == [c0 EXCEPT !.embedding = Some(e.val),
                             !.calls = Called(c0, "get_embedding", e)]
            r == search_similar(index, env.tblOk, e.val, unwrap_or(top_k, DEFAULT_TOP_K),
                                env.zeroOk)
        IN  IF ~r.ok
            THEN Return(c1, "search_similar", r,
                        Response(500, "Vector search error", None, None, <<>>))
            ELSE Return(c1, "search_similar", r,
                        Response(200, "", None, None,
                                 [i \in 1..Len(r.val) |->
                                    [path |-> r.val[i][1], score |-> r.val[i][2]]]))

\* ------------------------------------------------------- the service

\* The record of the last handler call that returned: the request, what the
\* file system held at the path, both stores before the call, and the call.
Last(op, path, query, top_k, content, call, table, index) ==
    [op |-> op, path |-> path, query |-> query, top_k |-> top_k, content |-> content,
     c |-> call, preFiles |-> table, preRows |-> index]

\* Two POST /process_file requests the server handles at once.
Requests == {"r1", "r2"}

\* A request not yet received: no handler call, and whether its call ran
\* while the other request's did.
NoRequest == [c |-> [NewCall(None) EXCEPT !.pc = "idle"], overlapped |-> FALSE]

\* The tasks that call the stores concurrently.
NumTasks == 2

Tasks == 1..NumTasks

\* A task outside add_file_metadata.
IdleTask == [pc |-> "idle", path |-> None, vector_id |-> None, wrote |-> 0]

\* MetadataStore::new has returned: the connection has inserted no row, the
\* mutex is free, no add_file_metadata call is running; the server has
\* received no request and sent none; FileWatcher::new has made the channel.
NoCatalogCall ==
    /\ mutex = None
    /\ rowid = 0
    /\ tasks = [t \in Tasks |-> IdleTask]
    /\ log = <<>>
    /\ procs = [r \in Requests |-> NoRequest]
    /\ http = <<>>
    /\ channel = <<>>
    /\ sender = TRUE
    /\ sent = <<>>
    /\ handed = <<>>

\* No handler call has returned yet.
NoLast ==
    Last("none", None, None, None, None, [NewCall(None) EXCEPT !.pc = "done"], {}, <<>>)

\* The tables VectorStore::new is called for: create_app's and the tests'.
TableNames == {"files", "live_test_table"}

EmptyDir == [t \in TableNames |-> NoTable]

\* The record of a VectorStore::new call that returned: its table name, its
\* result, the Lance directory it met and the directory it left.
Opened(table_name, r, dir) ==
    [table_name |-> table_name, ok |-> r.ok, err |-> r.err, store |-> r.store,
     pre |-> dir, post |-> r.dir]

\* create_app: MetadataStore::new creates the empty table `files`,
\* VectorStore::new the empty vector table; the watched folder holds any files.
Init ==
    /\ fs \in [Paths -> FileStates]
    /\ files = {}
    /\ rows = <<>>
    /\ last = NoLast
    /\ hist = <<>>
    /\ db = VectorStore_new(EmptyDir, "files", NewEnv(TRUE, TRUE, TRUE)).dir
    /\ opened = Opened("files", VectorStore_new(EmptyDir, "files", NewEnv(TRUE, TRUE, TRUE)),
                       EmptyDir)
    /\ NoCatalogCall

\* Another actor creates or rewrites the file at p.
WriteFile(p, s) ==
    /\ s # Absent
    /\ fs[p] # s
    /\ fs' = [fs EXCEPT ![p] = s]
    /\ UNCHANGED <<files, rows, last, hist, others>>

\* Another actor removes the file at p.
RemoveFile(p) ==
    /\ fs[p] # Absent
    /\ fs' = [fs EXCEPT ![p] = Absent]
    /\ UNCHANGED <<files, rows, last, hist, others>>

\* An input a call does not read: the reply to a request never sent, the
\* outcome of a store operation never started.
NoReply == [sent |-> FALSE, status |-> 500, parses |-> FALSE,
            embedding |-> [len |-> 0, of |-> ""]]

\* The embedding service's possible replies to a prompt; when it works, a
\* vector of the configured dimension for the prompt.
ReplyDomain(text, working) ==
    IF working
    THEN { [sent |-> TRUE, status |-> 200, parses |-> TRUE,
            embedding |-> [len |-> EMBEDDING_DIM, of |-> text]] }
    ELSE DistinctReplies(text)

\* Whether a store operation succeeds; it does when the store works.
OkDomain(working) == IF working THEN {TRUE} ELSE BOOLEAN

\* POST /process_file {file_path: p}: process_file_handler from its first line
\* to its return.  The embedding service answers if the call reaches
\* get_embedding, the vector store if it reaches add_embedding, the metadata
\* store and the clock if it reaches add_file_metadata.  working: the
\* collaborators are known to work.
ProcessCall(p, working) ==
    LET m0 == [c |-> NewCall(p), files |-> files, rows |-> rows]
        m2 == ProcessSteps(m0, Env(fs, NoReply, TRUE, TRUE, 0, TRUE), 2)
    IN  \E reply \in (IF m2.c.pc = "embed" THEN ReplyDomain(m2.c.text, working)
                      ELSE {NoReply}) :
        LET m3 == ProcessStep(m2, Env(fs, reply, TRUE, TRUE, 0, TRUE))
        IN  \E tblOk \in (IF m3.c.pc = "add_embedding" THEN OkDomain(working) ELSE {TRUE}) :
            LET m4 == ProcessStep(m3, Env(fs, reply, tblOk, TRUE, 0, TRUE))
            IN  \E sqlOk \in (IF m4.c.pc = "add_file_metadata" THEN OkDomain(working)
                              ELSE {TRUE}),
                   now \in (IF m4.c.pc = "add_file_metadata" THEN Times ELSE {0}) :
                LET m == ProcessStep(m4, Env(fs, reply, tblOk, sqlOk, now, TRUE))
                IN  /\ files' = m.files
                    /\ rows' = m.rows
                    /\ last' = Last("process", Some(p), None, None, Some(fs[p]), m.c,
                                    files, rows)
                    /\ UNCHANGED <<fs, others>>

\* A search that keeps what it embedded: the query's vector is left in the
\* vector table under the query's text.
SearchCall_indexing_query(q, k, working) ==
    \E reply \in ReplyDomain(q, working) :
    \E tblOk \in (IF get_embedding(reply).ok THEN OkDomain(working) ELSE {TRUE}) :
    \E zeroOk \in (IF get_embedding(reply).ok /\ tblOk /\ k = Some(0)
                   THEN BOOLEAN ELSE {TRUE}) :
        LET c == search_handler(rows, k, Env(fs, reply, tblOk, TRUE, 0, zeroOk))
        IN  /\ last' = Last("search", None, Some(q), k, None, c, files, rows)
            /\ rows' = IF c.embedding = None THEN rows
                       ELSE Append(rows, [path |-> q, vector |-> c.embedding[1]])
            /\ UNCHANGED <<fs, files, others>>

\* POST /search {query: q, top_k: k}: search_handler from its first line to its return.
SearchCall(q, k, working) ==
    \E reply \in ReplyDomain(q, working) :
    \E tblOk \in (IF get_embedding(reply).ok THEN OkDomain(working) ELSE {TRUE}) :
    \E zeroOk \in (IF get_embedding(reply).ok /\ tblOk /\ k = Some(0)
                   THEN BOOLEAN ELSE {TRUE}) :
        LET c == search_handler(rows, k, Env(fs, reply, tblOk, TRUE, 0, zeroOk))
        IN  /\ last' = Last("search", None, Some(q), k, None, c, files, rows)
            /\ UNCHANGED <<fs, files, rows, others>>

ProcessFile(p) == ProcessCall(p, FALSE) /\ UNCHANGED hist

Search(q, k) == SearchCall(q, k, FALSE) /\ UNCHANGED hist

Next ==
    \/ \E p \in Paths, s \in FileStates : WriteFile(p, s)
    \/ \E p \in Paths : RemoveFile(p)
    \/ \E p \in Paths : ProcessFile(p)
    \/ \E q \in Queries, k \in TopKs : Search(q, k)

\* The service under any environment: files come and go, the embedding
\* service and the stores work or fail.
Spec == Init /\ [][Next]_vars

\* ----------------------------------------------- scenarios, call by call

\* One call of a followed scenario: the operation, its key and text, the
\* length of the vector it handled (0 with none), its limit, its outcome.
Event(op, key, text, len, top_k, ok, err, results) ==
    [op |-> op, key |-> key, text |-> text, len |-> len, top_k |-> top_k, ok |-> ok,
     err |-> err, results |-> results]

ProcessEvent(l) ==
    Event("process", l.path, IF l.content[1] \in Texts THEN l.content[1] ELSE "",
          IF l.c.embedding = None THEN 0 ELSE l.c.embedding[1].len, None,
          l.c.response[1].status = 200 /\ l.c.response[1].file_id # None,
          l.c.response[1].message, <<>>)

SearchEvent(l) ==
    Event("search", None, l.query[1],
          IF l.c.embedding = None THEN 0 ELSE l.c.embedding[1].len,
          Some(unwrap_or(l.top_k, DEFAULT_TOP_K)),
          l.c.response[1].status = 200, l.c.response[1].message,
          l.c.response[1].results)

\* The service while every collaborator works: each prompt is answered with a
\* vector of the configured dimension and both stores are operational.
ProcessFileWorking(p) ==
    /\ Len(hist) < MaxCalls
    /\ ProcessCall(p, TRUE)
    /\ hist' = Append(hist, ProcessEvent(last'))

SearchWorking(q, k) ==
    /\ Len(hist) < MaxCalls
    /\ SearchCall(q, k, TRUE)
    /\ hist' = Append(hist, SearchEvent(last'))

NextWorking ==
    \/ \E p \in Paths, s \in FileStates : WriteFile(p, s)
    \/ \E p \in Paths : RemoveFile(p)
    \/ \E p \in Paths : ProcessFileWorking(p)
    \/ \E q \in Queries, k \in TopKs : SearchWorking(q, k)

SpecWorking == Init /\ [][NextWorking]_vars

\* VectorStore called directly, as a library.
IndexKeys == {"k1", "k2"}

IndexVectors == { [len |-> n, of |-> t] : n \in Lens, t \in Texts }

AddEmbedding(k, v) ==
    /\ Len(hist) < MaxCalls
    /\ \E tblOk \in BOOLEAN :
        LET r == add_embedding(rows, tblOk, k, v)
        IN  /\ rows' = r.rows
            /\ hist' = Append(hist, Event("add_embedding", Some(k), v.of, v.len, None,
                                          r.ok, r.err, <<>>))
    /\ UNCHANGED <<fs, files, last, others>>

SearchSimilar(q, k) ==
    /\ Len(hist) < MaxCalls
    /\ \E tblOk \in BOOLEAN, zeroOk \in (IF k = 0 THEN BOOLEAN ELSE {TRUE}) :
        LET r == search_similar(rows, tblOk, q, k, zeroOk)
        IN  hist' = Append(hist, Event("search_similar", None, q.of, q.len, Some(k), r.ok,
                                       IF r.ok THEN "" ELSE r.err,
                                       IF r.ok THEN r.val ELSE <<>>))
    /\ UNCHANGED <<fs, files, rows, last, others>>

InitIndex == Init /\ fs = [p \in Paths |-> Absent]

NextIndex ==
    \/ \E k \in IndexKeys, v \in IndexVectors : AddEmbedding(k, v)
    \/ \E q \in IndexVectors, k \in 0..2 : SearchSimilar(q, k)

SpecIndex == InitIndex /\ [][NextIndex]_vars

\* VectorStore::new called on a Lance directory that other writers share.
\* Rows another writer holds in the directory, over all its tables.
MaxRows == 2

\* Dimensions of the vector column of a table another build made (EMBEDDING_DIM
\* is a constant of the build, "Match to output dim").
Dims == Lens \ {0}

RowsInDir == Len(db["files"].rows) + Len(db["live_test_table"].rows)

\* VectorStore::new(db_path, t).
New(t) ==
    /\ \E connOk \in BOOLEAN, namesOk \in BOOLEAN, createOk \in BOOLEAN :
        LET r == VectorStore_new(db, t, NewEnv(connOk, namesOk, createOk))
        IN  /\ db' = r.dir
            /\ opened' = Opened(t, r, db)
    /\ UNCHANGED <<fs, files, rows, last, hist, catalog, procs, io>>

\* A build whose EMBEDDING_DIM is d, or another Lance client, creates table t.
CreateElsewhere(t, d) ==
    /\ ~db[t].exists
    /\ db' = [db EXCEPT ![t] = [exists |-> TRUE, dim |-> d, rows |-> <<>>]]
    /\ UNCHANGED <<fs, files, rows, last, hist, opened, catalog, procs, io>>

\* Another Lance client appends a row to table t.
AppendElsewhere(t, k, text) ==
    /\ db[t].exists
    /\ RowsInDir < MaxRows
    /\ db' = [db EXCEPT ![t].rows =
                 Append(@, [path |-> k, vector |-> [len |-> db[t].dim, of |-> text]])]
    /\ UNCHANGED <<fs, files, rows, last, hist, opened, catalog, procs, io>>

\* Before create_app: an empty Lance directory, no store opened.
InitStore ==
    /\ fs = [p \in Paths |-> Absent]
    /\ files = {}
    /\ rows = <<>>
    /\ last = NoLast
    /\ hist = <<>>
    /\ db = EmptyDir
    /\ opened = Opened("", [ok |-> FALSE, err |-> "", store |-> NoStore, dir |-> EmptyDir],
                       EmptyDir)
    /\ NoCatalogCall

NextStore ==
    \/ \E t \in TableNames : New(t)
    \/ \E t \in TableNames, d \in Dims : CreateElsewhere(t, d)
    \/ \E t \in TableNames, k \in IndexKeys, text \in Texts : AppendElsewhere(t, k, text)

SpecStore == InitStore /\ [][NextStore]_vars

\* search_similar over a table that holds rows.  In a Lance directory the rows
\* of a table are those any Lance client appended.
LanceAppend(k, text, max) ==
    /\ Len(rows) < max
    /\ rows' = Append(rows, [path |-> k, vector |-> [len |-> EMBEDDING_DIM, of |-> text]])
    /\ UNCHANGED <<fs, files, last, hist, others>>

\* VectorStore::search_similar(q, k); hist keeps the last call alone.
SearchIndex(q, k) ==
    /\ \E tblOk \in BOOLEAN, zeroOk \in (IF k = 0 THEN BOOLEAN ELSE {TRUE}) :
        LET r == search_similar(rows, tblOk, q, k, zeroOk)
        IN  hist' = << Event("search_similar", None, q.of, q.len, Some(k), r.ok,
                             IF r.ok THEN "" ELSE r.err,
                             IF r.ok THEN r.val ELSE <<>>) >>
    /\ UNCHANGED <<fs, files, rows, last, others>>

NextSearch ==
    \/ \E k \in IndexKeys, text \in Texts : LanceAppend(k, text, MaxRows)
    \/ \E q \in IndexVectors, k \in 0..(MaxRows + 1) : SearchIndex(q, k)

SpecSearch == InitIndex /\ [][NextSearch]_vars

\* search_handler over a table that holds rows.
\* Rows the table holds at most.
MaxIndexed == 6

\* The rows found in the table: two paths, each of which may be there more
\* than once.
Indexed == { <<"k1", "t1">>, <<"k2", "t2">> }

NextQuery ==
    \/ \E r \in Indexed : LanceAppend(r[1], r[2], MaxIndexed)
    \/ \E q \in Queries, k \in TopKs : Search(q, k)

SpecQuery == InitIndex /\ [][NextQuery]_vars

\* MetadataStore::add_file_metadata called by concurrent tasks, statement by
\* statement, with the arguments process_file_handler gives it: the path and,
\* as vector_id, the same path.
\* add_file_metadata calls begun at most.
MaxRecorded == 3

\* The paths whose processing reaches the catalog: those with text.
CatalogPaths == { p \in Paths : p.ext \in {"txt", "md"} }

Begun == Len(log) + Cardinality({ t \in Tasks : tasks[t].pc # "idle" })

\* An add_file_metadata call that returned: Ok(id) or Err, and the id of the
\* row its INSERT wrote (0 with none).
Returned(t, ok, id) ==
    [task |-> t, path |-> tasks[t].path[1], ok |-> ok, id |-> id,
     wrote |-> tasks[t].wrote]

\* state.metadata_store.add_file_metadata(&path_str, &vector_id_str): the call begins.
Call(t, p) ==
    /\ tasks[t].pc = "idle"
    /\ Begun < MaxRecorded
    /\ tasks' = [tasks EXCEPT ![t] = [pc |-> "lock", path |-> Some(to_string_lossy(p)),
                                      vector_id |-> Some(to_string_lossy(p)),
                                      wrote |-> 0]]
    /\ UNCHANGED <<fs, files, rows, last, hist, db, opened, mutex, rowid, log, procs, io>>

\* self.conn.lock().await with the mutex taken whether or not it is held.
Lock_not_exclusive(t) ==
    /\ tasks[t].pc = "lock"
    /\ mutex' = Some(t)
    /\ tasks' = [tasks EXCEPT ![t].pc = "execute"]
    /\ UNCHANGED <<fs, files, rows, last, hist, db, opened, rowid, log, procs, io>>

\* let conn = self.conn.lock().await: the task waits until the mutex is free.
Lock(t) ==
    /\ tasks[t].pc = "lock"
    /\ mutex = None
    /\ mutex' = Some(t)
    /\ tasks' = [tasks EXCEPT ![t].pc = "execute"]
    /\ UNCHANGED <<fs, files, rows, last, hist, db, opened, rowid, log, procs, io>>

\* conn.execute(INSERT OR REPLACE ..) as a delete and an insert that can fail
\* apart: a failed statement has removed the path's row.
Execute_delete_then_fail(t) ==
    /\ tasks[t].pc = "execute"
    /\ \E sqlOk \in BOOLEAN, now \in Times :
        IF sqlOk
        THEN /\ files' = insert_or_replace(files, tasks[t].path[1], now,
                                           tasks[t].vector_id[1])
             /\ rowid' = new_rowid(files)
             /\ tasks' = [tasks EXCEPT ![t].pc = "last_insert_rowid",
                                       ![t].wrote = new_rowid(files)]
             /\ UNCHANGED <<mutex, log>>
        ELSE /\ files' = { r \in files : r.path # tasks[t].path[1] }
             /\ mutex' = None
             /\ log' = Append(log, Returned(t, FALSE, 0))
             /\ tasks' = [tasks EXCEPT ![t] = IdleTask]
             /\ UNCHANGED rowid
    /\ UNCHANGED <<fs, rows, last, hist, db, opened, procs, io>>

\* let now = chrono::Utc::now(); conn.execute(INSERT OR REPLACE ..)?  The
\* statement is atomic: it writes the row and sets the connection's
\* last_insert_rowid, or it fails and changes nothing, and `?` returns the
\* error, dropping the guard.
Execute(t) ==
    /\ tasks[t].pc = "execute"
    /\ \E sqlOk \in BOOLEAN, now \in Times :
        IF sqlOk
        THEN /\ files' = insert_or_replace(files, tasks[t].path[1], now,
                                           tasks[t].vector_id[1])
             /\ rowid' = new_rowid(files)
             /\ tasks' = [tasks EXCEPT ![t].pc = "last_insert_rowid",
                                       ![t].wrote = new_rowid(files)]
             /\ UNCHANGED <<mutex, log>>
        ELSE /\ mutex' = None
             /\ log' = Append(log, Returned(t, FALSE, 0))
             /\ tasks' = [tasks EXCEPT ![t] = IdleTask]
             /\ UNCHANGED <<files, rowid>>
    /\ UNCHANGED <<fs, rows, last, hist, db, opened, procs, io>>

\* Ok(conn.last_insert_rowid()): the connection's last rowid is read and
\* returned, and the guard is dropped.
LastInsertRowid(t) ==
    /\ tasks[t].pc = "last_insert_rowid"
    /\ mutex' = None
    /\ log' = Append(log, Returned(t, TRUE, rowid))
    /\ tasks' = [tasks EXCEPT ![t] = IdleTask]
    /\ UNCHANGED <<fs, files, rows, last, hist, db, opened, rowid, procs, io>>

NextCatalog ==
    \/ \E t \in Tasks, p \in CatalogPaths : Call(t, p)
    \/ \E t \in Tasks : Lock(t)
    \/ \E t \in Tasks : Execute(t)
    \/ \E t \in Tasks : LastInsertRowid(t)

SpecCatalog == InitIndex /\ [][NextCatalog]_vars

\* process_file_handler run by two requests at once, await by await.
InFlight(r) == procs[r].c.pc \notin {"idle", "done"}

\* POST /process_file {file_path: p} is received for request r.
Receive(r, p) ==
    /\ procs[r].c.pc = "idle"
    /\ procs' = [q \in Requests |->
                    IF q = r
                    THEN [c |-> NewCall(p), overlapped |-> \E o \in Requests : InFlight(o)]
                    ELSE [procs[q] EXCEPT !.overlapped = @ \/ InFlight(q)]]
    /\ UNCHANGED <<fs, files, rows, last, hist, db, opened, catalog, io>>

\* The handler of request r runs to its next await or to its return; the
\* collaborator it calls answers in any way it can.
Step(r) ==
    /\ InFlight(r)
    /\ LET pc == procs[r].c.pc
       IN  \E reply \in (IF pc = "embed" THEN ReplyDomain(procs[r].c.text, FALSE)
                         ELSE {NoReply}),
              tblOk \in (IF pc = "add_embedding" THEN BOOLEAN ELSE {TRUE}),
              sqlOk \in (IF pc = "add_file_metadata" THEN BOOLEAN ELSE {TRUE}),
              now \in (IF pc = "add_file_metadata" THEN Times ELSE {0}) :
            LET m == ProcessStep([c |-> procs[r].c, files |-> files, rows |-> rows],
                                 Env(fs, reply, tblOk, sqlOk, now, TRUE))
            IN  /\ files' = m.files
                /\ rows' = m.rows
                /\ procs' = [procs EXCEPT ![r].c = m.c]
    /\ UNCHANGED <<fs, last, hist, db, opened, catalog, io>>

NextConcurrent ==
    \/ \E r \in Requests, p \in Paths : Receive(r, p)
    \/ \E r \in Requests : Step(r)

SpecConcurrent == Init /\ [][NextConcurrent]_vars

\* OllamaClient::get_embedding called directly, against a service that
\* answers in every way it can.
\* ollama_client.get_embedding(text): the one POST is sent and meets `reply`.
GetEmbedding(text, reply) ==
    /\ Len(hist) < MaxCalls
    /\ http' = Append(http, [prompt |-> text, reply |-> reply])
    /\ LET r == get_embedding(reply)
       IN  hist' = Append(hist, Event("get_embedding", None, text,
                                      IF r.ok THEN r.val.len ELSE 0, None, r.ok,
                                      IF r.ok THEN "" ELSE r.err,
                                      IF r.ok THEN <<r.val>> ELSE <<>>))
    /\ UNCHANGED <<fs, files, rows, last, db, opened, catalog, procs, channel, sender, sent,
                   handed>>

NextEmbed == \E text \in Texts : \E reply \in Replies(text) : GetEmbedding(text, reply)

SpecEmbed == InitIndex /\ [][NextEmbed]_vars

\* extract_text_from_file called directly, on paths of every kind: the
\* service's, a path without extension (a file named only ".txt" is one:
\* Path::extension gives None for it), an extension in capitals.
ExtractPaths == Paths \cup { [stem |-> "d", ext |-> ""], [stem |-> "e", ext |-> "TXT"] }

\* What a path holds in these calls.
ExtractStates == {Absent, Unreadable, "", "t1"}

\* extract_text_from_file(p); hist keeps the last call alone, with what the
\* path held when it was called.
Extract(p) ==
    /\ LET r == extract_text_from_file(fs, p)
       IN  hist' = << Event("extract_text_from_file", Some(p), IF r.ok THEN r.val ELSE "",
                            0, None, r.ok, IF r.ok THEN "" ELSE r.err, <<fs[p]>>) >>
    /\ UNCHANGED <<fs, files, rows, last, others>>

\* Another actor changes what the path holds.
Touch(p, s) ==
    /\ fs[p] # s
    /\ fs' = [fs EXCEPT ![p] = s]
    /\ UNCHANGED <<files, rows, last, hist, others>>

InitExtract ==
    /\ fs = [p \in ExtractPaths |-> Absent]
    /\ files = {}
    /\ rows = <<>>
    /\ last = NoLast
    /\ hist = <<>>
    /\ db = EmptyDir
    /\ opened = Opened("", [ok |-> FALSE, err |-> "", store |-> NoStore, dir |-> EmptyDir],
                       EmptyDir)
    /\ NoCatalogCall

NextExtract ==
    \/ \E p \in ExtractPaths : Extract(p)
    \/ \E p \in ExtractPaths, s \in ExtractStates : Touch(p, s)

SpecExtract == InitExtract /\ [][NextExtract]_vars

\* process_file_handler while another actor writes and removes readable
\* files: path.exists() and fs::read_to_string are two calls to the file
\* system, and the file can go between them.
InitRace == Init /\ fs \in [Paths -> {Absent, "t1"}]

NextRace ==
    \/ \E r \in Requests, p \in Paths : Receive(r, p)
    \/ \E r \in Requests : Step(r)
    \/ \E p \in Paths : WriteFile(p, "t1")
    \/ \E p \in Paths : RemoveFile(p)

SpecRace == InitRace /\ [][NextRace]_vars

\* FileWatcher: the debouncer sends batches into the channel, the owner of the
\* watcher takes them with next_event and try_next_event.
\* Batches the debouncer sends at most.
MaxBatches == 3

\* Calls of next_event and try_next_event at most.
MaxHanded == 4

\* A returned call: which method, and its result but for the channel.
Handed(op, r) == [op |-> op, ok |-> r.ok, out |-> r.out, batch |-> r.batch]

\* The debouncer's handler sends Ok(events) or Err(errors): tx.send(..).
Send(kind) ==
    /\ sender
    /\ Len(sent) < MaxBatches
    /\ sent' = Append(sent, kind)
    /\ channel' = Append(channel, Batch(Len(sent) + 1, kind))
    /\ UNCHANGED <<fs, files, rows, last, hist, db, opened, catalog, procs, http, sender,
                   handed>>

\* The debouncer's thread ends and drops the Sender.
Disconnect ==
    /\ sender
    /\ sender' = FALSE
    /\ UNCHANGED <<fs, files, rows, last, hist, db, opened, catalog, procs, http, channel,
                   sent, handed>>

\* watcher.next_event() returns: recv() has a message, or the Sender is gone.
NextEvent ==
    /\ Len(handed) < MaxHanded
    /\ channel # <<>> \/ ~sender
    /\ LET r == next_event(channel, sender)
       IN  /\ channel' = r.left
           /\ handed' = Append(handed, Handed("next_event", r))
    /\ UNCHANGED <<fs, files, rows, last, hist, db, opened, catalog, procs, http, sender,
                   sent>>

\* watcher.try_next_event() returns, whatever the channel holds.
TryNextEvent ==
    /\ Len(handed) < MaxHanded
    /\ LET r == try_next_event(channel, sender)
       IN  /\ channel' = r.left
           /\ handed' = Append(handed, Handed("try_next_event", r))
    /\ UNCHANGED <<fs, files, rows, last, hist, db, opened, catalog, procs, http, sender,
                   sent>>

NextWatcher ==
    \/ \E kind \in {"events", "errors"} : Send(kind)
    \/ Disconnect
    \/ NextEvent
    \/ TryNextEvent

SpecWatcher == InitIndex /\ [][NextWatcher]_vars

\* ------------------------------------------------------------ properties

LastResponse == last.c.response[1]

LastPath == last.path[1]

\* The last call invoked the collaborator fn / fn failed in it.
Invoked(fn) == \E i \in DOMAIN last.c.calls : last.c.calls[i].fn = fn

Failed(fn) == \E i \in DOMAIN last.c.calls : last.c.calls[i].fn = fn /\ ~last.c.calls[i].ok

LastFns == [i \in DOMAIN last.c.calls |-> last.c.calls[i].fn]

StoresAsBefore == files = last.preFiles /\ rows = last.preRows

Recognised(p) == p.ext \in {"txt", "md"}

\* The last call was a process call that handed the vector store a vector of
\* the configured dimension while the table could be opened.
UpsertOfGoodVector ==
    /\ last.op = "process"
    /\ Invoked("add_embedding")
    /\ last.c.embedding[1].len = EMBEDDING_DIM
    /\ \A i \in DOMAIN last.c.calls : last.c.calls[i].err # "open_table"

IndexRowsOf(key) == { i \in DOMAIN rows : rows[i].path = key }

CatalogRowsOf(p) == { r \in files : r.path = p }

\* C1 (as claimed): after two process calls on the same path, the file's
\* (recognised, non-empty) content changed between them, every collaborator
\* working and no other calls, the catalog holds exactly one row for the path
\* and the vector index exactly two rows keyed by it.
C1_AsClaimed ==
    ( /\ Len(hist) = 2
      /\ hist[1].op = "process" /\ hist[2].op = "process"
      /\ hist[1].key = hist[2].key
      /\ Recognised(hist[1].key[1])
      /\ hist[1].text \in Texts /\ hist[2].text \in Texts
      /\ hist[1].text # hist[2].text )
    => /\ Cardinality(CatalogRowsOf(hist[1].key[1])) = 1
       /\ Cardinality(IndexRowsOf(hist[1].key[1])) = 2

\* C2 (as claimed): a process call whose upsert was given a vector of the
\* configured dimension on an open table passes the upsert; when
\* recordProcessing then fails the call ends with the metadata store's error,
\* the catalog is unchanged, and the vector row of the upsert is in the index.
C2_AsClaimed ==
    UpsertOfGoodVector =>
        /\ ~Failed("add_embedding")
        /\ IndexRowsOf(LastPath) # {}
        /\ Failed("add_file_metadata") =>
            /\ LastResponse.status = 500
            /\ LastResponse.message = "Metadata store error"
            /\ files = last.preFiles

\* C3: when the vector-index upsert fails inside process, the call ends with
\* the vector store's error (status 500), recordProcessing is not invoked and
\* the catalog's rows are those before the call.
C3_UpsertFailureLeavesCatalog ==
    (last.op = "process" /\ Failed("add_embedding")) =>
        /\ LastResponse.status = 500
        /\ LastResponse.message = "Vector store error"
        /\ ~Invoked("add_file_metadata")
        /\ files = last.preFiles

\* C3 witness: a process call that reached add_embedding, which failed.
C3_Witness ==
    /\ last.op = "process"
    /\ Failed("add_embedding")
    /\ LastFns = <<"exists", "extract_text_from_file", "get_embedding", "add_embedding">>

\* C4: when embed fails inside process, the call ends with the embedding
\* service's error (status 500), neither store is called, and both stores hold
\* the rows they held before the call.
C4_EmbedFailurePersistsNothing ==
    (last.op = "process" /\ Failed("get_embedding")) =>
        /\ LastResponse.status = 500
        /\ LastResponse.message = "Ollama embedding error"
        /\ ~Invoked("add_embedding")
        /\ ~Invoked("add_file_metadata")
        /\ StoresAsBefore

\* C4 witness: a process call on a file with text whose get_embedding failed.
C4_Witness ==
    /\ last.op = "process"
    /\ Failed("get_embedding")
    /\ last.content[1] \in Texts

\* C5: process on a path that does not exist answers File not found (status
\* 400) after the existence check alone: no extraction, no embed call, no
\* index write, no catalog write; the handler returns (it does not panic).
C5_NotFoundTouchesNothing ==
    (last.op = "process" /\ last.content = Some(Absent)) =>
        /\ last.c.pc = "done"
        /\ last.c.response # None
        /\ LastResponse.status = 400
        /\ LastResponse.message = "File not found"
        /\ LastFns = <<"exists">>
        /\ StoresAsBefore

\* C5 witness: a process call on a recognised path that held no file.
C5_Witness ==
    /\ last.op = "process"
    /\ last.content = Some(Absent)
    /\ Recognised(LastPath)

\* C6: process on an existing path whose extracted text is empty (an
\* extension outside the allow-list, or a recognised file with no content)
\* succeeds (status 200) with file_id = None and vector_id = None, calls
\* get_embedding zero times and leaves both stores as they were.
C6_SkippedCreatesNothing ==
    ( /\ last.op = "process"
      /\ last.content # Some(Absent)
      /\ (~Recognised(LastPath) \/ last.content = Some("")) ) =>
        /\ LastResponse.status = 200
        /\ LastResponse.file_id = None
        /\ LastResponse.vector_id = None
        /\ ~Invoked("get_embedding")
        /\ ~Invoked("add_embedding")
        /\ ~Invoked("add_file_metadata")
        /\ StoresAsBefore

\* C6 witness: a process call on a file with text and an extension outside the
\* allow-list, answered as skipped.
C6_Witness ==
    /\ last.op = "process"
    /\ ~Recognised(LastPath)
    /\ last.content[1] \in Texts
    /\ LastResponse.message = "No text extracted or unsupported file type"

\* C7 (as claimed): a process call on a recognised, non-empty file whose
\* embedding has the configured dimension, with both stores operational,
\* succeeds fully: vector_id is the request path, file_id is present and is
\* the id of the catalog row stored for the path, whose vector_id is the path.
C7_AsClaimed ==
    (UpsertOfGoodVector /\ ~Failed("add_file_metadata")) =>
        /\ LastResponse.status = 200
        /\ LastResponse.vector_id = Some(LastPath)
        /\ LastResponse.file_id # None
        /\ \E r \in files :
            /\ r.path = LastPath
            /\ r.id = LastResponse.file_id[1]
            /\ r.vector_id = LastPath

\* C8 (as claimed): after a process call on a recognised, non-empty file with
\* every collaborator working, a later search whose top_k is at least the
\* number of rows in the index succeeds with a non-empty list that holds the
\* path.
C8_AsClaimed ==
    ( /\ Len(hist) = 2
      /\ hist[1].op = "process"
      /\ Recognised(hist[1].key[1])
      /\ hist[1].text \in Texts
      /\ hist[2].op = "search"
      /\ hist[2].top_k[1] >= 1
      /\ hist[2].top_k[1] >= Len(rows) ) =>
        /\ hist[2].ok
        /\ hist[2].results # <<>>
        /\ \E i \in DOMAIN hist[2].results : hist[2].results[i].path = hist[1].key[1]

\* C9 (as claimed): add_embedding(k, v) with v of the configured dimension on
\* an open table succeeds, and a following search_similar(v, 1) that succeeds
\* returns exactly one result, (k, 0).
C9_AsClaimed ==
    ( /\ Len(hist) = 2
      /\ hist[1].op = "add_embedding"
      /\ hist[1].len = EMBEDDING_DIM
      /\ hist[1].err # "open_table"
      /\ hist[2].op = "search_similar"
      /\ hist[2].len = hist[1].len /\ hist[2].text = hist[1].text
      /\ hist[2].top_k = Some(1)
      /\ hist[2].ok ) =>
        /\ hist[1].ok
        /\ hist[2].results = << <<hist[1].key[1], 0>> >>

OpenedPre == opened.pre[opened.table_name]

\* C11 (as claimed): VectorStore::new on a table that exists with a vector
\* column of another dimension than the one the store is built for, in a
\* directory it can connect to and list, fails with a schema mismatch; it
\* returns no store.
C11_AsClaimed ==
    ( /\ opened.table_name \in TableNames
      /\ OpenedPre.exists
      /\ OpenedPre.dim # EMBEDDING_DIM
      /\ opened.err \notin {"connect", "table_names"} )
    => /\ ~opened.ok
       /\ opened.err = "SchemaMismatch"

\* C12: VectorStore::new creates the table only when no table of that name
\* exists; when the table exists (and the directory can be connected to and
\* listed) the call succeeds, creates nothing and leaves every row of every
\* table in place; a second call after a successful one leaves the directory
\* as the first left it.
C12_NewIsIdempotent ==
    /\ opened.table_name \in TableNames =>
        /\ opened.post # opened.pre =>
            /\ ~OpenedPre.exists
            /\ opened.ok
            /\ opened.post = [opened.pre EXCEPT ![opened.table_name] =
                        [exists |-> TRUE, dim |-> EMBEDDING_DIM, rows |-> <<>>]]
        /\ (OpenedPre.exists /\ opened.err \notin {"connect", "table_names"}) =>
            /\ opened.ok
            /\ opened.post = opened.pre
    /\ \A t \in TableNames, e1 \in [connOk : BOOLEAN, namesOk : BOOLEAN, createOk : BOOLEAN],
          e2 \in [connOk : BOOLEAN, namesOk : BOOLEAN, createOk : BOOLEAN] :
        LET once == VectorStore_new(db, t, e1)
            twice == VectorStore_new(once.dir, t, e2)
        IN  once.ok => /\ twice.dir = once.dir
                       /\ (e2.connOk /\ e2.namesOk) => twice.ok

\* C12 witness: VectorStore::new succeeded on a table that existed and held
\* rows, which are still there.
C12_Witness ==
    /\ opened.table_name \in TableNames
    /\ opened.ok
    /\ OpenedPre.exists
    /\ Len(OpenedPre.rows) = 2
    /\ opened.post[opened.table_name].rows = OpenedPre.rows

\* res is a nearest-neighbour answer of limit k over table for the query q: at
\* most k pairs, each the (path, distance) of a row of its own, ascending by
\* distance, and no row left out is closer than a row in it.
IsNearest(res, table, q, k) ==
    /\ Len(res) <= k
    /\ \A i \in DOMAIN res : \A j \in DOMAIN res : i < j => res[i][2] <= res[j][2]
    /\ \E f \in [DOMAIN res -> DOMAIN table] :
        /\ \A i \in DOMAIN res : \A j \in DOMAIN res : i # j => f[i] # f[j]
        /\ \A i \in DOMAIN res :
            res[i] = <<table[f[i]].path, Distance(q, table[f[i]].vector)>>
        /\ \A j \in DOMAIN table :
            (\A i \in DOMAIN res : f[i] # j) =>
                \A i \in DOMAIN res : res[i][2] <= Distance(q, table[j].vector)

\* C13 (as claimed): for the index as it is, every query vector of length
\* EMBEDDING_DIM and every top_k >= 0, search_similar on a table that opens
\* returns a nearest-neighbour answer of limit top_k; with top_k = 0 it
\* returns the empty sequence.
C13_AsClaimed ==
    \A q \in IndexVectors, k \in 0..(MaxRows + 1), zeroOk \in BOOLEAN :
        q.len = EMBEDDING_DIM =>
            LET r == search_similar(rows, TRUE, q, k, zeroOk)
            IN  /\ r.ok
                /\ IsNearest(r.val, rows, q, k)
                /\ k = 0 => r.val = <<>>

\* The part of C13 for top_k >= 1.
C13_PositiveLimit ==
    \A q \in IndexVectors, k \in 1..(MaxRows + 1) :
        q.len = EMBEDDING_DIM =>
            LET r == search_similar(rows, TRUE, q, k, TRUE)
            IN  r.ok /\ IsNearest(r.val, rows, q, k)

\* C14: a search call that succeeds answers exactly what search_similar
\* returned for the query's embedding and the limit top_k, 5 when top_k is
\* absent: as many results, in the same order, path the key and score the
\* distance of each, repeated paths included; a search_similar that failed
\* gives no results.
C14_SearchReturnsIndexResult ==
    last.op = "search" =>
        /\ LastResponse.status = 200 =>
            \E zeroOk \in BOOLEAN :
                LET r == search_similar(last.preRows, TRUE, last.c.embedding[1],
                                        IF last.top_k = None THEN DEFAULT_TOP_K
                                        ELSE last.top_k[1], zeroOk)
                IN  /\ r.ok
                    /\ Len(LastResponse.results) = Len(r.val)
                    /\ \A i \in DOMAIN r.val :
                        /\ LastResponse.results[i].path = r.val[i][1]
                        /\ LastResponse.results[i].score = r.val[i][2]
        /\ LastResponse.status # 200 => LastResponse.results = <<>>
        /\ (~Failed("get_embedding") /\ ~Failed("search_similar")) => LastResponse.status = 200

\* C14 witness: a search without top_k over six rows answered five results,
\* the first two of one path and the last of another.
C14_Witness ==
    /\ last.op = "search"
    /\ last.top_k = None
    /\ Len(last.preRows) = 6
    /\ LastResponse.status = 200
    /\ Len(LastResponse.results) = DEFAULT_TOP_K
    /\ LastResponse.results[1].path = LastResponse.results[2].path
    /\ LastResponse.results[1].path # LastResponse.results[5].path

\* The add_file_metadata calls that returned Ok, as positions of log.
Recorded == { i \in DOMAIN log : log[i].ok }

\* C15: in every catalog state, whatever add_file_metadata calls succeeded or
\* failed, no two rows share a path; a call that succeeded for a path leaves
\* one row for it, and the row the catalog holds is that of the latest call
\* that wrote the path.
C15_OneRowPerPath ==
    /\ \A r1 \in files : \A r2 \in files : r1.path = r2.path => r1 = r2
    /\ \A i \in Recorded :
        /\ Cardinality(CatalogRowsOf(log[i].path)) = 1
        /\ ( /\ \A j \in Recorded : (j > i) => log[j].path # log[i].path
             /\ \A t \in Tasks : tasks[t].pc = "last_insert_rowid"
                                     => tasks[t].path # Some(log[i].path) )
            => (\E r \in files : r.path = log[i].path /\ r.id = log[i].id)

\* C15 witness: a path was recorded twice with success and the catalog holds
\* the row of the second call.
C15_Witness ==
    \E i \in Recorded : \E j \in Recorded :
        /\ i < j
        /\ log[i].path = log[j].path
        /\ CatalogRowsOf(log[j].path) # {}
        /\ \A r \in CatalogRowsOf(log[j].path) : r.id = log[j].id

\* C16: the id a call returns for a path no earlier call recorded is greater
\* than every id an earlier call returned, whatever mix of new and recorded
\* paths the earlier calls had.
C16_FirstIdAboveEarlierIds ==
    \A i \in Recorded :
        (\A j \in Recorded : j < i => log[j].path # log[i].path)
            => (\A j \in Recorded : j < i => log[j].id < log[i].id)

\* C16 witness: a path recorded twice, then another path recorded for the
\* first time.
C16_Witness ==
    /\ Len(log) = 3
    /\ Recorded = {1, 2, 3}
    /\ log[1].path = log[2].path
    /\ log[3].path # log[1].path

\* The tasks between the lock and its release.
InCatalog == { t \in Tasks : tasks[t].pc \in {"execute", "last_insert_rowid"} }

\* C18: at most one add_file_metadata call is inside the catalog at a time,
\* and it holds the mutex, from its INSERT to its read of last_insert_rowid;
\* the id a call returns is the id of the row that call wrote.
C18_LockedWriteAndRead ==
    /\ Cardinality(InCatalog) <= 1
    /\ \A t \in InCatalog : mutex = Some(t)
    /\ \A t \in Tasks : tasks[t].pc = "last_insert_rowid" => rowid = tasks[t].wrote
    /\ \A i \in Recorded : log[i].id = log[i].wrote

\* C18 witness: a task waits for the mutex while another, which holds it, has
\* written its row and not yet read the id; a call of the waiting task
\* returned before.
C18_Witness ==
    \E t \in Tasks : \E u \in Tasks :
        /\ tasks[t].pc = "last_insert_rowid"
        /\ tasks[u].pc = "lock"
        /\ \E i \in Recorded : log[i].task = u

\* C20: no step removes a path from the catalog: a path that has a row has
\* one after every step, whether the step's call succeeds or fails.
C20_RowNeverDeleted ==
    [][\A p \in CatalogPaths :
        CatalogRowsOf(to_string_lossy(p)) # {} => CatalogRowsOf(to_string_lossy(p))' # {}]_vars

\* C20 witness: a path was recorded, then a call for it failed and a call for
\* another path succeeded, and the path has its row.
C20_Witness ==
    /\ Len(log) = 3
    /\ log[1].ok /\ ~log[2].ok /\ log[3].ok
    /\ log[2].path = log[1].path
    /\ log[3].path # log[1].path
    /\ CatalogRowsOf(log[1].path) # {}

\* Request r's call returned, having handed the vector store a vector of the
\* configured dimension while the table could be opened, and no
\* add_file_metadata call of it failed: nothing around the call kept it from
\* succeeding.
CouldSucceed(r) ==
    LET c == procs[r].c
    IN  /\ c.pc = "done"
        /\ c.embedding # None
        /\ \E i \in DOMAIN c.calls : c.calls[i].fn = "add_embedding"
        /\ \A i \in DOMAIN c.calls :
            /\ c.calls[i].err # "open_table"
            /\ c.calls[i].fn = "add_file_metadata" => c.calls[i].ok

\* Request r's call succeeded with a catalog id.
Succeeded(r) ==
    /\ procs[r].c.pc = "done"
    /\ procs[r].c.response # None
    /\ procs[r].c.response[1].status = 200
    /\ procs[r].c.response[1].file_id # None

\* C17 (as claimed): two process calls for the same path that ran at once on a
\* recognised file with text, each with an embedding of the configured
\* dimension and both stores operational, both succeed; the index then holds
\* two rows for the path and the catalog exactly one, the row of the call that
\* took the catalog lock last (the larger of the two ids returned).
C17_AsClaimed ==
    ( /\ procs["r1"].overlapped /\ procs["r2"].overlapped
      /\ CouldSucceed("r1") /\ CouldSucceed("r2")
      /\ procs["r1"].c.path = procs["r2"].c.path
      /\ procs["r1"].c.embedding[1].len = EMBEDDING_DIM
      /\ procs["r2"].c.embedding[1].len = EMBEDDING_DIM )
    => /\ Succeeded("r1") /\ Succeeded("r2")
       /\ Cardinality(IndexRowsOf(procs["r1"].c.path)) = 2
       /\ Cardinality(CatalogRowsOf(procs["r1"].c.path)) = 1
       /\ \A row \in CatalogRowsOf(procs["r1"].c.path) :
            /\ row.id >= procs["r1"].c.response[1].file_id[1]
            /\ row.id >= procs["r2"].c.response[1].file_id[1]
            /\ row.id \in {procs["r1"].c.response[1].file_id[1],
                           procs["r2"].c.response[1].file_id[1]}

\* C19 (as claimed): two process calls for different paths that ran at once,
\* each on a recognised file with text, with an embedding of the configured
\* dimension and both stores operational, both succeed; the catalog then holds
\* one row for each path, with different ids, each call returned the id of its
\* own path's row, and the index holds one row for each path.
C19_AsClaimed ==
    ( /\ procs["r1"].overlapped /\ procs["r2"].overlapped
      /\ CouldSucceed("r1") /\ CouldSucceed("r2")
      /\ procs["r1"].c.path # procs["r2"].c.path
      /\ procs["r1"].c.embedding[1].len = EMBEDDING_DIM
      /\ procs["r2"].c.embedding[1].len = EMBEDDING_DIM )
    => /\ Succeeded("r1") /\ Succeeded("r2")
       /\ \A r \in Requests :
            /\ Cardinality(IndexRowsOf(procs[r].c.path)) = 1
            /\ Cardinality(CatalogRowsOf(procs[r].c.path)) = 1
            /\ \A row \in CatalogRowsOf(procs[r].c.path) :
                row.id = procs[r].c.response[1].file_id[1]
       /\ procs["r1"].c.response[1].file_id # procs["r2"].c.response[1].file_id

\* No request is between the first line of its handler and its return.
Quiescent == \A r \in Requests : ~InFlight(r)

\* An add_file_metadata call of some request failed.
RecordFailed ==
    \E r \in Requests : \E i \in DOMAIN procs[r].c.calls :
        procs[r].c.calls[i].fn = "add_file_metadata" /\ ~procs[r].c.calls[i].ok

\* Request r's call reached add_embedding, which failed.
UpsertFailed(r) ==
    \E i \in DOMAIN procs[r].c.calls :
        procs[r].c.calls[i].fn = "add_embedding" /\ ~procs[r].c.calls[i].ok

StepsOf(op) ==
    IF op = "process"
    THEN <<"exists", "extract_text_from_file", "get_embedding", "add_embedding",
           "add_file_metadata">>
    ELSE <<"get_embedding", "search_similar">>

\* The status and message a handler answers when the collaborator fn fails in it.
ErrorOf(op, fn) ==
    CASE fn = "exists" -> <<400, "File not found">>
      [] fn = "extract_text_from_file" -> <<500, "Extraction error">>
      [] fn = "get_embedding" /\ op = "process" -> <<500, "Ollama embedding error">>
      [] fn = "get_embedding" /\ op = "search" -> <<500, "Ollama query embedding error">>
      [] fn = "add_embedding" -> <<500, "Vector store error">>
      [] fn = "add_file_metadata" -> <<500, "Metadata store error">>
      [] OTHER -> <<500, "Vector search error">>

\* C22: a handler call invokes its collaborators in the order of its code, each
\* at most once (the calls of one invocation are a prefix of that order), and
\* the first collaborator that fails is the last one called: the invocation
\* ends there with that step's own status and message.
C22_NoRetry ==
    last.op \in {"process", "search"} =>
        /\ Len(LastFns) <= Len(StepsOf(last.op))
        /\ LastFns = SubSeq(StepsOf(last.op), 1, Len(LastFns))
        /\ \A i \in DOMAIN last.c.calls :
            ~last.c.calls[i].ok =>
                /\ i = Len(last.c.calls)
                /\ LastResponse.status = ErrorOf(last.op, last.c.calls[i].fn)[1]
                /\ LastResponse.message = ErrorOf(last.op, last.c.calls[i].fn)[2]

\* C22 witness: a search call whose get_embedding succeeded and whose
\* search_similar failed, each called once.
C22_Witness ==
    /\ last.op = "search"
    /\ LastFns = <<"get_embedding", "search_similar">>
    /\ Failed("search_similar")
    /\ LastResponse.message = "Vector search error"

\* The request of the i-th get_embedding call was answered with a success
\* status and a body that parses into a vector.
Answered(i) ==
    /\ http[i].reply.sent
    /\ http[i].reply.status \in 200..299
    /\ http[i].reply.parses

\* C23: each get_embedding call sends one request, with the call's own text;
\* it fails when the request is not answered (Reqwest), when the status is
\* not a success (ApiError) and when the body does not parse (Reqwest); it
\* returns a vector, the one of the body, exactly when the status is a
\* success and the body parses, whatever the calls before it met.
C23_EmbedOutcomes ==
    /\ Len(http) = Len(hist)
    /\ \A i \in DOMAIN hist :
        /\ http[i].prompt = hist[i].text
        /\ hist[i].ok <=> Answered(i)
        /\ hist[i].ok => hist[i].results = <<http[i].reply.embedding>>
        /\ ~http[i].reply.sent => hist[i].err = "Reqwest"
        /\ (http[i].reply.sent /\ http[i].reply.status \notin 200..299)
            => hist[i].err = "ApiError"
        /\ (http[i].reply.sent /\ http[i].reply.status \in 200..299
              /\ ~http[i].reply.parses)
            => hist[i].err = "Reqwest"

\* C23 witness: a call answered 500 with a body that would parse failed, and
\* the next call, with the same text, returned the vector of its own answer.
C23_Witness ==
    /\ Len(hist) = 2
    /\ http[1].reply.sent /\ http[1].reply.status = 500 /\ http[1].reply.parses
    /\ ~hist[1].ok
    /\ hist[2].text = hist[1].text
    /\ hist[2].ok
    /\ hist[2].len = EMBEDDING_DIM

\* The extensions extract_text_from_file reads.
AllowListed(p) == p.ext \in {"txt", "md"}

\* C24: extract_text_from_file returns the empty string, without failing, for
\* every path whose extension is not txt or md (a path without extension and
\* a path that cannot be read among them); for a txt or md file that can be
\* read it returns the content as it is; it fails exactly when reading a txt
\* or md file fails.
C24_ExtractOutcomes ==
    \A i \in DOMAIN hist :
        LET p == hist[i].key[1]
            held == hist[i].results[1]
        IN  /\ ~AllowListed(p) => (hist[i].ok /\ hist[i].text = "")
            /\ (AllowListed(p) /\ held \notin {Absent, Unreadable})
                => (hist[i].ok /\ hist[i].text = held)
            /\ ~hist[i].ok <=> (AllowListed(p) /\ held \in {Absent, Unreadable})
            /\ ~hist[i].ok => hist[i].err = "io"

\* C24 witness: a path without extension that cannot be read gave the empty string.
C24_Witness ==
    /\ Len(hist) = 1
    /\ hist[1].key[1].ext = ""
    /\ hist[1].results[1] = Unreadable
    /\ hist[1].ok
    /\ hist[1].text = ""

\* Request r's call invoked fn / invoked fn and fn succeeded.
Reached(r, fn) == \E i \in DOMAIN procs[r].c.calls : procs[r].c.calls[i].fn = fn

Passed(r, fn) ==
    \E i \in DOMAIN procs[r].c.calls :
        procs[r].c.calls[i].fn = fn /\ procs[r].c.calls[i].ok

C26_IdOfOnePath ==
    \A i \in Recorded : \A j \in Recorded :
        log[i].id = log[j].id => log[i].path = log[j].path

\* C26 witness: a path's row was replaced, so that no row has its first id,
\* and a call for another path returned after that.
C26_Witness ==
    /\ Len(log) = 3
    /\ Recorded = {1, 2, 3}
    /\ log[2].path = log[1].path
    /\ log[3].path # log[1].path
    /\ \A row \in files : row.id # log[1].id
    /\ log[3].id # log[1].id

\* C27: a search call, whether it succeeds or fails, leaves the rows of the
\* vector index and of the catalog as they were, and leaves the catalog's
\* mutex alone: it calls get_embedding and search_similar and nothing else.
C27_SearchChangesNothing ==
    [][(last' # last /\ last'.op = "search") =>
          /\ rows' = rows
          /\ files' = files
          /\ mutex' = mutex /\ rowid' = rowid
          /\ \A i \in DOMAIN last'.c.calls :
                last'.c.calls[i].fn \in {"get_embedding", "search_similar"}]_vars

\* C27 witness: a search over a table of two rows failed in search_similar
\* and returned; the table has its two rows.
C27_Witness ==
    /\ last.op = "search"
    /\ Failed("search_similar")
    /\ Len(last.preRows) = 2
    /\ rows = last.preRows
    /\ files = last.preFiles

\* Request r's handler has passed path.exists() and is about to read a txt or
\* md file that is gone.
RemovedBeforeRead(r) ==
    /\ procs[r].c.pc = "extract"
    /\ Recognised(procs[r].c.path)
    /\ fs[procs[r].c.path] = Absent

\* C28: when a txt or md file passed the existence check and is removed before
\* the handler reads it, the handler's next step ends the call with 500
\* Extraction error (not 400 File not found, not the 200 of a skipped file),
\* extraction being the last collaborator called, and leaves both stores as
\* they were.
C28_RemovedBeforeRead ==
    [][\A r \in Requests :
        (RemovedBeforeRead(r) /\ procs'[r].c # procs[r].c) =>
            /\ procs'[r].c.pc = "done"
            /\ procs'[r].c.response[1].status = 500
            /\ procs'[r].c.response[1].message = "Extraction error"
            /\ procs'[r].c.calls = Append(procs[r].c.calls,
                   [fn |-> "extract_text_from_file", ok |-> FALSE, err |-> "io"])
            /\ procs'[r].c.embedding = None
            /\ files' = files
            /\ rows' = rows]_vars

\* C28 witness: a call for a txt file passed the existence check, the file is
\* gone, and the call has ended in extraction.
C28_Witness ==
    \E r \in Requests :
        /\ procs[r].c.pc = "done"
        /\ procs[r].c.path.ext = "txt"
        /\ fs[procs[r].c.path] = Absent
        /\ Len(procs[r].c.calls) = 2
        /\ procs[r].c.calls[1].fn = "exists" /\ procs[r].c.calls[1].ok
        /\ procs[r].c.calls[2].fn = "extract_text_from_file" /\ ~procs[r].c.calls[2].ok

\* The batches the calls so far have taken from the channel, in call order.
TakenBy(h) == SelectSeq(h, LAMBDA e : e.batch # 0)

\* Every batch sent is either still queued or was taken by exactly one call,
\* the taken ones are the oldest and were taken in sending order, and the
\* queue holds the rest in sending order.
InQueueOrder ==
    LET taken == TakenBy(handed)
    IN  /\ Len(taken) + Len(channel) = Len(sent)
        /\ \A i \in 1..Len(taken) : taken[i].batch = i
        /\ \A i \in 1..Len(channel) :
              channel[i] = Batch(Len(taken) + i, sent[Len(taken) + i])

\* What a call that took batch e.batch returned: the events of a batch of
\* events; for a batch of errors the empty list (next_event) or None
\* (try_next_event), never a failure.
TakenAsSent ==
    \A i \in 1..Len(handed) :
        LET e == handed[i]
        IN  e.batch # 0 =>
              /\ e.ok
              /\ sent[e.batch] = "events" => e.out = "events"
              /\ sent[e.batch] = "errors" =>
                    e.out = IF e.op = "next_event" THEN "empty" ELSE "none"

\* A call returns: what it returns against the channel it was called on.
ReturnsByQueue ==
    handed' # handed =>
        LET e == handed'[Len(handed')]
        IN  /\ channel # <<>> => (e.batch = Head(channel).id /\ channel' = Tail(channel))
            /\ channel = <<>> => (e.batch = 0 /\ channel' = channel)
            /\ (e.op = "try_next_event" /\ channel = <<>> /\ sender) =>
                  e.ok /\ e.out = "none"
            /\ (~e.ok) <=> (channel = <<>> /\ ~sender)

\* C29: the file watcher hands out each queued batch exactly once and in the
\* order it was queued; a queued batch of watcher errors is consumed and
\* reported as an empty result (the empty list from next_event, None from
\* try_next_event), not as a failure; try_next_event never waits, returns
\* None on an empty queue with a live producer, and a call fails only, and
\* always, when the queue is empty and the producer is gone.
C29_BatchesOnceInOrder ==
    /\ [](InQueueOrder /\ TakenAsSent)
    /\ [](Len(handed) < MaxHanded => ENABLED TryNextEvent)
    /\ [][ReturnsByQueue]_vars

\* C29 witness: a batch of events was handed out by try_next_event, the batch
\* of errors sent after it was taken by next_event as the empty list, a third
\* call found the queue empty and returned None, and after the producer went
\* a fourth call failed.
C29_Witness ==
    /\ Len(handed) = 4
    /\ handed[1] = [op |-> "try_next_event", ok |-> TRUE, out |-> "events", batch |-> 1]
    /\ handed[2] = [op |-> "next_event", ok |-> TRUE, out |-> "empty", batch |-> 2]
    /\ handed[3] = [op |-> "try_next_event", ok |-> TRUE, out |-> "none", batch |-> 0]
    /\ ~handed[4].ok
    /\ sent = <<"events", "errors">>
====
